---- MODULE Spec2Model ----
(***************************************************************************)
(* Model of the YouTube-to-Doc pipeline: request validation and identifier *)
(* resolution (schemas.py), the metadata and transcript fetchers           *)
(* (processor.py), the document formatter and the /process handler         *)
(* (main.py) and the duration formatter (utils.py).                        *)
(*                                                                         *)
(* Python strings are sequences of one-character strings.  An Optional     *)
(* value is a sequence of length at most one: None is << >> and a present  *)
(* value v is <<v>>, so that the empty string (Some(<< >>)) and None stay  *)
(* distinct.                                                               *)
(***************************************************************************)
EXTENDS Integers, Sequences, FiniteSets, TLC

VARIABLES
    yt_dlp,            \* processor.py:18-21   TRUE iff the yt_dlp import succeeded
    YouTube,           \* processor.py:23-26   TRUE iff the pytube import succeeded
    YouTubeTranscriptApi, \* processor.py:11-16 TRUE iff the transcript api import succeeded
    text_formatter,    \* processor.py:36      TRUE iff self.text_formatter is not None
    pc,                \* position of the /process handler
    form,              \* the submitted form fields url, max_transcript_length, language
    video_id,          \* Optional: result of query.extract_video_id()
    calls,             \* sequence of external provider calls made, in order
    info_src,          \* provider data the returning metadata tier read
    video_info,        \* Optional: the dict returned by _get_video_info
    tracks,            \* Optional: the track list list_transcripts returned
    chosen,            \* Optional: the track selected by extract_transcript
    formatted,         \* Optional: the text format_transcript returned
    transcript,        \* Optional: first component of _get_transcript's result
    detected_language, \* Optional: second component of _get_transcript's result
    response,          \* Optional: the response of the handler
    u_url,             \* a URL string handed to the validator and the resolver
    u_validated,       \* Optional: outcome of validate_youtube_url(u_url)
    u_resolved         \* Optional: outcome of extract_video_id on u_url

vars ==
    <<yt_dlp, YouTube, YouTubeTranscriptApi, text_formatter, pc, form, video_id,
      calls, info_src, video_info, tracks, chosen, formatted, transcript,
      detected_language, response, u_url, u_validated, u_resolved>>

pipeline_vars ==
    <<yt_dlp, YouTube, YouTubeTranscriptApi, text_formatter, pc, form, video_id,
      calls, info_src, video_info, tracks, chosen, formatted, transcript,
      detected_language, response>>

url_vars ==
    <<u_url, u_validated, u_resolved>>

----------------------------------------------------------------------------
(* Optional values and outcomes of calls                                   *)

None ==
    << >>

Some(v) ==
    <<v>>

\* A call either returns a value or raises an exception of some class.
Return(v) ==
    [exc |-> "", value |-> <<v>>]

Raise(kind) ==
    [exc |-> kind, value |-> << >>]

Min(S) ==
    CHOOSE x \in S : \A y \in S : x <= y

Max(S) ==
    CHOOSE x \in S : \A y \in S : x >= y

Take(s, n) ==
    SubSeq(s, 1, IF n < Len(s) THEN n ELSE Len(s))

\* s[p..] starts with lit
HasAt(s, p, lit) ==
    /\ p + Len(lit) - 1 <= Len(s)
    /\ SubSeq(s, p, p + Len(lit) - 1) = lit

\* sub occurs somewhere in s
Contains(s, sub) ==
    \E p \in 1..(Len(s) - Len(sub) + 1) : HasAt(s, p, sub)

EndsWith(s, suf) ==
    /\ Len(suf) <= Len(s)
    /\ SubSeq(s, Len(s) - Len(suf) + 1, Len(s)) = suf

----------------------------------------------------------------------------
(* String literals of the source                                           *)

SchemeHttp ==
    <<"h", "t", "t", "p">>

SchemeSep ==
    <<":", "/", "/">>

WwwDot ==
    <<"w", "w", "w", ".">>

WatchLit ==
    <<"y", "o", "u", "t", "u", "b", "e", ".", "c", "o", "m", "/", "w", "a", "t", "c", "h", "?", "v", "=">>

ShortLit ==
    <<"y", "o", "u", "t", "u", ".", "b", "e", "/">>

EmbedLit ==
    <<"y", "o", "u", "t", "u", "b", "e", ".", "c", "o", "m", "/", "e", "m", "b", "e", "d", "/">>

VideoPrefix ==
    <<"V", "i", "d", "e", "o", " ">>

DescriptionNotAvailable ==
    <<"D", "e", "s", "c", "r", "i", "p", "t", "i", "o", "n", " ", "n", "o", "t", " ", "a", "v", "a", "i", "l", "a", "b", "l", "e">>

UnknownChannel ==
    <<"U", "n", "k", "n", "o", "w", "n", " ", "C", "h", "a", "n", "n", "e", "l">>

UnknownTitle ==
    <<"U", "n", "k", "n", "o", "w", "n", " ", "T", "i", "t", "l", "e">>

ThumbPrefix ==
    <<"h", "t", "t", "p", "s", ":", "/", "/", "i", "m", "g", ".", "y", "o", "u", "t", "u", "b", "e", ".", "c", "o", "m", "/", "v", "i", "/">>

ThumbSuffix ==
    <<"/", "m", "a", "x", "r", "e", "s", "d", "e", "f", "a", "u", "l", "t", ".", "j", "p", "g">>

TruncationMarker ==
    <<"\n", "[", "T", "r", "a", "n", "s", "c", "r", "i", "p", "t", " ", "t", "r", "u", "n", "c", "a", "t", "e", "d", ".", ".", ".", "]">>

HeadingLine ==
    <<"#", " ", "Y", "o", "u", "T", "u", "b", "e", " ", "V", "i", "d", "e", "o", " ", "D", "o", "c", "u", "m", "e", "n", "t", "a", "t", "i", "o", "n", "\n">>

TitlePrefix ==
    <<"#", "#", " ">>

MetadataLine ==
    <<"#", "#", "#", " ", "M", "e", "t", "a", "d", "a", "t", "a", "\n">>

VideoIdLabel ==
    <<"-", " ", "*", "*", "V", "i", "d", "e", "o", " ", "I", "D", "*", "*", ":", " ">>

ChannelLabel ==
    <<"-", " ", "*", "*", "C", "h", "a", "n", "n", "e", "l", "*", "*", ":", " ">>

DurationLabel ==
    <<"-", " ", "*", "*", "D", "u", "r", "a", "t", "i", "o", "n", "*", "*", ":", " ">>

ViewsLabel ==
    <<"-", " ", "*", "*", "V", "i", "e", "w", "s", "*", "*", ":", " ">>

UploadDateLabel ==
    <<"-", " ", "*", "*", "U", "p", "l", "o", "a", "d", " ", "D", "a", "t", "e", "*", "*", ":", " ">>

UrlLabel ==
    <<"-", " ", "*", "*", "U", "R", "L", "*", "*", ":", " ">>

DescriptionLine ==
    <<"#", "#", "#", " ", "D", "e", "s", "c", "r", "i", "p", "t", "i", "o", "n", "\n">>

TranscriptLine ==
    <<"#", "#", "#", " ", "T", "r", "a", "n", "s", "c", "r", "i", "p", "t", "\n">>

LanguagePrefix ==
    <<"*", "L", "a", "n", "g", "u", "a", "g", "e", ":", " ">>

LanguageSuffix ==
    <<"*", "\n">>

NotAvailableLine ==
    <<"*", "T", "r", "a", "n", "s", "c", "r", "i", "p", "t", " ", "n", "o", "t", " ", "a", "v", "a", "i", "l", "a", "b", "l", "e", " ", "f", "o", "r", " ", "t", "h", "i", "s", " ", "v", "i", "d", "e", "o", ".", "*", "\n">>

NoneText ==
    <<"N", "o", "n", "e">>

----------------------------------------------------------------------------
(* schemas.py: the URL patterns, the validator and the resolver            *)

\* The character class [a-zA-Z0-9_-]
IdChars ==
    {"a", "b", "c", "d", "e", "f", "g", "h", "i", "j", "k", "l", "m", "n", "o", "p", "q", "r", "s", "t", "u", "v", "w", "x", "y", "z", "A", "B", "C", "D", "E", "F", "G", "H", "I", "J", "K", "L", "M", "N", "O", "P", "Q", "R", "S", "T", "U", "V", "W", "X", "Y", "Z", "0", "1", "2", "3", "4", "5", "6", "7", "8", "9", "_", "-"}

\* The repetition count of the capturing group, {11}
IdLen ==
    11

\* The three patterns share the shape
\*   (?:https?://)?(?:www\.)?<literal>([a-zA-Z0-9_-]{11})
\* and are given by their literal, in list order.
youtube_patterns ==
    <<WatchLit, ShortLit, EmbedLit>>

\* Positions at which the rest of the pattern may start once (?:https?://)?
\* has consumed nothing, "http://" or "https://" from position p.
AfterScheme(s, p) ==
    {p}
      \cup (IF HasAt(s, p, SchemeHttp \o SchemeSep)
            THEN {p + Len(SchemeHttp \o SchemeSep)} ELSE {})
      \cup (IF HasAt(s, p, SchemeHttp \o <<"s">> \o SchemeSep)
            THEN {p + Len(SchemeHttp \o <<"s">> \o SchemeSep)} ELSE {})

\* Positions after (?:www\.)? from position q.
AfterWww(s, q) ==
    {q} \cup (IF HasAt(s, q, WwwDot) THEN {q + Len(WwwDot)} ELSE {})

\* The literal followed by IdLen characters of the class, from position r.
LiteralAndIdAt(lit, s, r) ==
    /\ HasAt(s, r, lit)
    /\ r + Len(lit) + IdLen - 1 <= Len(s)
    /\ \A i \in (r + Len(lit))..(r + Len(lit) + IdLen - 1) : s[i] \in IdChars

\* A match of the pattern anchored at position p: Some(group(1)) or None.
\* The optional groups are greedy, so the longest consumed prefix is tried first.
MatchAt(lit, s, p) ==
    LET starts == {r \in UNION {AfterWww(s, q) : q \in AfterScheme(s, p)} :
                      LiteralAndIdAt(lit, s, r)}
    IN  IF starts = {}
        THEN None
        ELSE LET r == Max(starts)
             IN  Some(SubSeq(s, r + Len(lit), r + Len(lit) + IdLen - 1))

\* re.match: the pattern must match at the start of the string.
re_match(lit, s) ==
    MatchAt(lit, s, 1)

\* re.search: the leftmost position at which the pattern matches.
re_search(lit, s) ==
    LET hits == {p \in 1..Len(s) : MatchAt(lit, s, p) # None}
    IN  IF hits = {} THEN None ELSE MatchAt(lit, s, Min(hits))

\* VideoQuery.validate_youtube_url: returns v when some pattern re.match-es.
validate_youtube_url(v) ==
    IF \E k \in 1..Len(youtube_patterns) : re_match(youtube_patterns[k], v) # None
    THEN Return(v)
    ELSE Raise("ValueError")

\* The minimum of validate_transcript_length
MinTranscriptLength ==
    100

\* validate_transcript_length with the comparison off by one
validate_transcript_length_off_by_one(v) ==
    IF v < MinTranscriptLength - 1 THEN Raise("ValueError") ELSE Return(v)

\* VideoQuery.validate_transcript_length
validate_transcript_length(v) ==
    IF v < MinTranscriptLength THEN Raise("ValueError") ELSE Return(v)

\* VideoQuery.extract_video_id: group(1) of the first pattern, in list order,
\* that re.search finds anywhere in the url.
extract_video_id(url) ==
    LET found == {k \in 1..Len(youtube_patterns) :
                     re_search(youtube_patterns[k], url) # None}
    IN  IF found = {}
        THEN Raise("ValueError")
        ELSE Return(re_search(youtube_patterns[Min(found)], url)[1])

\* VideoQuery(url=..., max_transcript_length=..., ...): pydantic runs both field
\* validators and raises ValidationError, a subclass of ValueError, if either fails.
VideoQuery(f) ==
    IF /\ validate_youtube_url(f.url).exc = ""
       /\ validate_transcript_length(f.max_transcript_length).exc = ""
    THEN Return(f)
    ELSE Raise("ValueError")

----------------------------------------------------------------------------
(* URL strings submitted to the validator and the resolver                 *)

\* Longest run of foreign characters put in front of a URL
MaxPrefix ==
    1

SampleId ==
    <<"d", "Q", "w", "4", "w", "9", "W", "g", "X", "c", "Q">>

OtherId ==
    <<"A", "b", "_", "-", "5", "6", "7", "8", "9", "0", "z">>

\* SampleId with a character outside the class at position k
Spoiled(k) ==
    [i \in 1..IdLen |-> IF i = k THEN "!" ELSE SampleId[i]]

UrlPrefixes ==
    {[i \in 1..n |-> "x"] : n \in 0..MaxPrefix}

UrlSchemes ==
    {<< >>, SchemeHttp \o SchemeSep, SchemeHttp \o <<"s">> \o SchemeSep,
     <<"f", "t", "p">> \o SchemeSep}

UrlWww ==
    {<< >>, WwwDot}

UrlHosts ==
    {WatchLit, ShortLit, EmbedLit, <<"v", "i", "m", "e", "o", ".", "c", "o", "m", "/">>}

UrlIds ==
    {SampleId, Take(SampleId, IdLen - 1), SampleId \o <<"Z">>, Spoiled(IdLen), Spoiled(1)}

UrlSuffixes ==
    {<< >>, <<"&", "t", "=", "1">>, <<"?">> \o WatchLit \o OtherId}

UrlInputs ==
    {p \o s \o w \o h \o i \o x :
        p \in UrlPrefixes, s \in UrlSchemes, w \in UrlWww,
        h \in UrlHosts, i \in UrlIds, x \in UrlSuffixes}

----------------------------------------------------------------------------
(* Rendering of integers, as Python's str(), {:,} and strftime do          *)

DigitChars ==
    <<"0", "1", "2", "3", "4", "5", "6", "7", "8", "9">>

RECURSIVE IntToStr(_)
\* str(n) for n >= 0
IntToStr(n) ==
    IF n < 10
    THEN <<DigitChars[n + 1]>>
    ELSE IntToStr(n \div 10) \o <<DigitChars[(n % 10) + 1]>>

\* n rendered with leading zeros to at least w characters
ZeroPad(n, w) ==
    LET s == IntToStr(n)
    IN  [i \in 1..(IF w > Len(s) THEN w - Len(s) ELSE 0) |-> "0"] \o s

RECURSIVE Grouped(_)
\* f"{n:,}": thousands separated by commas
Grouped(n) ==
    IF n < 1000
    THEN IntToStr(n)
    ELSE Grouped(n \div 1000) \o <<",">> \o ZeroPad(n % 1000, 3)

\* date.strftime('%Y%m%d') for a date <<year, month, day>>
Strftime(date) ==
    ZeroPad(date[1], 4) \o ZeroPad(date[2], 2) \o ZeroPad(date[3], 2)

----------------------------------------------------------------------------
(* processor.py: the metadata tiers                                        *)

\* dict.get(key, default): the default replaces a missing key only; a key
\* that is present with the value None yields None.
DictGet(d, key, default) ==
    IF key \in DOMAIN d THEN d[key] ELSE default

\* The primary tier with no default for a missing title
get_video_info_yt_dlp_no_title_default(id, url, info) ==
    [title         |-> DictGet(info, "title", None),
     description   |-> DictGet(info, "description", Some(<< >>)),
     duration      |-> DictGet(info, "duration", Some(0)),
     view_count    |-> DictGet(info, "view_count", None),
     channel       |-> DictGet(info, "uploader", Some(UnknownChannel)),
     upload_date   |-> DictGet(info, "upload_date", None),
     url           |-> Some(url),
     video_id      |-> Some(id),
     thumbnail_url |-> DictGet(info, "thumbnail", None)]

\* _get_video_info_yt_dlp.extract_info on the info dict yt-dlp returned
get_video_info_yt_dlp(id, url, info) ==
    [title         |-> DictGet(info, "title", Some(UnknownTitle)),
     description   |-> DictGet(info, "description", Some(<< >>)),
     duration      |-> DictGet(info, "duration", Some(0)),
     view_count    |-> DictGet(info, "view_count", None),
     channel       |-> DictGet(info, "uploader", Some(UnknownChannel)),
     upload_date   |-> DictGet(info, "upload_date", None),
     url           |-> Some(url),
     video_id      |-> Some(id),
     thumbnail_url |-> DictGet(info, "thumbnail", None)]

\* _get_video_info_pytube.extract_info on the pytube object yt
get_video_info_pytube(url, yt) ==
    [title         |-> yt.title,
     description   |-> yt.description,
     duration      |-> yt.length,
     view_count    |-> yt.views,
     channel       |-> yt.author,
     upload_date   |-> IF yt.publish_date # None
                       THEN Some(Strftime(yt.publish_date[1]))
                       ELSE None,
     url           |-> Some(url),
     video_id      |-> yt.video_id,
     thumbnail_url |-> yt.thumbnail_url]

\* The fallback record with the render-level title in place of "Video <id>"
minimal_fallback_unknown_title(id, url) ==
    [title         |-> Some(UnknownTitle),
     description   |-> Some(DescriptionNotAvailable),
     duration      |-> Some(0),
     view_count    |-> None,
     channel       |-> Some(UnknownChannel),
     upload_date   |-> None,
     url           |-> Some(url),
     video_id      |-> Some(id),
     thumbnail_url |-> Some(ThumbPrefix \o id \o ThumbSuffix)]

\* The dict literal at the end of _get_video_info
minimal_fallback(id, url) ==
    [title         |-> Some(VideoPrefix \o id),
     description   |-> Some(DescriptionNotAvailable),
     duration      |-> Some(0),
     view_count    |-> None,
     channel       |-> Some(UnknownChannel),
     upload_date   |-> None,
     url           |-> Some(url),
     video_id      |-> Some(id),
     thumbnail_url |-> Some(ThumbPrefix \o id \o ThumbSuffix)]

----------------------------------------------------------------------------
(* Data the metadata providers may hand back                               *)

InfoKeys ==
    {"title", "description", "duration", "view_count", "uploader",
     "upload_date", "thumbnail"}

FullInfo ==
    [title       |-> Some(<<"S", "o", "n", "g">>),
     description |-> Some(<<"A", " ", "c", "l", "i", "p">>),
     duration    |-> Some(3725),
     view_count  |-> Some(1234567),
     uploader    |-> Some(<<"R", "i", "c", "k">>),
     upload_date |-> Some(<<"2", "0", "0", "9", "1", "0", "2", "5">>),
     thumbnail   |-> Some(<<"t", ".", "j", "p", "g">>)]

\* An info dict with exactly the keys of S
InfoWithKeys(S) ==
    [k \in S |-> FullInfo[k]]

\* An info dict in which key k is present with the value None
InfoWithNone(k) ==
    [FullInfo EXCEPT ![k] = None]

\* yt-dlp reports duration None for live streams, and any key may be missing.
InfoDicts ==
    {FullInfo, InfoWithKeys({})}
      \cup {InfoWithKeys(InfoKeys \ {k}) : k \in InfoKeys}
      \cup {InfoWithNone(k) : k \in {"duration", "description"}}

\* A pytube YouTube object whose attributes all load
PytubeObject(id, description, length, publish_date) ==
    [title         |-> Some(<<"S", "o", "n", "g">>),
     description   |-> description,
     length        |-> Some(length),
     views         |-> Some(999),
     author        |-> Some(<<"R", "i", "c", "k">>),
     publish_date  |-> publish_date,
     video_id      |-> Some(id),
     thumbnail_url |-> Some(<<"t", ".", "j", "p", "g">>)]

PytubeObjects(id) ==
    {PytubeObject(id, Some(<<"A", " ", "c", "l", "i", "p">>), 125, Some(<<2009, 10, 25>>)),
     PytubeObject(id, None, 45, None),
     PytubeObject(id, Some(<< >>), 3600, Some(<<2009, 1, 5>>))}

----------------------------------------------------------------------------
(* processor.py: track selection and truncation in extract_transcript      *)

\* TranscriptList.find_manually_created_transcript([language]): the manually
\* created track with that language code, or None when the library raises.
find_manually_created_transcript(transcript_list, language) ==
    LET hits == {i \in 1..Len(transcript_list) :
                    /\ ~transcript_list[i].is_generated
                    /\ transcript_list[i].language_code = language}
    IN  IF hits = {} THEN None ELSE Some(transcript_list[Min(hits)])

\* TranscriptList.find_generated_transcript([language])
find_generated_transcript(transcript_list, language) ==
    LET hits == {i \in 1..Len(transcript_list) :
                    /\ transcript_list[i].is_generated
                    /\ transcript_list[i].language_code = language}
    IN  IF hits = {} THEN None ELSE Some(transcript_list[Min(hits)])

\* The fallback without its first loop: the first enumerated track of any kind
fall_back_to_first(transcript_list, language) ==
    IF Len(transcript_list) > 0
    THEN [transcript        |-> Some(transcript_list[1]),
          detected_language |-> transcript_list[1].language_code]
    ELSE [transcript |-> None, detected_language |-> language]

\* The two loops of the innermost except block: the first enumerated track
\* that is not generated, else the first enumerated track.
fall_back_to_any(transcript_list, language) ==
    LET manual == {i \in 1..Len(transcript_list) : ~transcript_list[i].is_generated}
    IN  IF manual # {}
        THEN [transcript        |-> Some(transcript_list[Min(manual)]),
              detected_language |-> transcript_list[Min(manual)].language_code]
        ELSE IF Len(transcript_list) > 0
        THEN [transcript        |-> Some(transcript_list[1]),
              detected_language |-> transcript_list[1].language_code]
        ELSE [transcript |-> None, detected_language |-> language]

\* The nested try/except of extract_transcript: the values of the locals
\* transcript and detected_language when the selection is over.
select_transcript(transcript_list, language) ==
    IF find_manually_created_transcript(transcript_list, language) # None
    THEN [transcript        |-> find_manually_created_transcript(transcript_list, language),
          detected_language |-> language]
    ELSE IF find_generated_transcript(transcript_list, language) # None
    THEN [transcript        |-> find_generated_transcript(transcript_list, language),
          detected_language |-> language]
    ELSE fall_back_to_any(transcript_list, language)

\* Truncation that also cuts a text of exactly max_length characters
truncate_at_limit(formatted_text, max_length) ==
    IF max_length # 0 /\ Len(formatted_text) >= max_length
    THEN Take(formatted_text, max_length) \o TruncationMarker
    ELSE formatted_text

\* "Trim to max length if specified"
truncate(formatted_text, max_length) ==
    IF max_length # 0 /\ Len(formatted_text) > max_length
    THEN Take(formatted_text, max_length) \o TruncationMarker
    ELSE formatted_text

----------------------------------------------------------------------------
(* Data the transcript provider may hand back                              *)

\* Longest track list list_transcripts returns
MaxTracks ==
    2

\* How far request lengths and texts go beyond MinTranscriptLength
MaxOver ==
    1

LangEn ==
    <<"e", "n">>

LangDe ==
    <<"d", "e">>

LangFr ==
    <<"f", "r">>

RequestLanguages ==
    {LangEn, LangFr}

Tracks ==
    [language_code : {LangEn, LangDe}, is_generated : BOOLEAN]

\* Track lists name each (language, kind) at most once.
TrackLists ==
    {tl \in UNION {[1..n -> Tracks] : n \in 0..MaxTracks} :
        \A i, j \in 1..Len(tl) : i # j => tl[i] # tl[j]}

\* The text format_transcript returns for a fetched track, by length
TextOf(n) ==
    [i \in 1..n |-> <<"a", "b", " ">>[(i % 3) + 1]]

TextLengths ==
    {0, 1} \cup {MinTranscriptLength + k : k \in (-1)..(MaxOver + 1)}

RequestLengths ==
    {MinTranscriptLength \div 2, MinTranscriptLength - 1}
      \cup {MinTranscriptLength + k : k \in 0..MaxOver}

\* URLs submitted to /process: three accepted shapes, one of them carrying a
\* second identifier in its query string, and three rejected strings.
RequestUrls ==
    {SchemeHttp \o <<"s">> \o SchemeSep \o WwwDot \o WatchLit \o SampleId,
     ShortLit \o SampleId \o <<"?">> \o WatchLit \o OtherId,
     SchemeHttp \o SchemeSep \o EmbedLit \o OtherId \o <<"Z">>,
     <<"x">> \o SchemeHttp \o <<"s">> \o SchemeSep \o ShortLit \o SampleId,
     WatchLit \o Take(SampleId, IdLen - 1),
     << >>}

----------------------------------------------------------------------------
(* utils.py and main.py: the formatter                                     *)

\* format_duration: seconds // 3600 raises TypeError when seconds is None.
format_duration(seconds) ==
    IF seconds = None
    THEN Raise("TypeError")
    ELSE LET hours   == seconds[1] \div 3600
             minutes == (seconds[1] % 3600) \div 60
             secs    == seconds[1] % 60
         IN  IF hours > 0
             THEN Return(IntToStr(hours) \o <<"h", " ">> \o IntToStr(minutes)
                           \o <<"m", " ">> \o IntToStr(secs) \o <<"s">>)
             ELSE IF minutes > 0
             THEN Return(IntToStr(minutes) \o <<"m", " ">> \o IntToStr(secs) \o <<"s">>)
             ELSE Return(IntToStr(secs) \o <<"s">>)

\* An f-string field holding a str or None
StrOf(v) ==
    IF v = None THEN NoneText ELSE v[1]

\* Truth value of an Optional str
TruthyStr(v) ==
    v # None /\ v[1] # << >>

\* Truth value of an Optional int
TruthyInt(v) ==
    v # None /\ v[1] # 0

RECURSIVE Join(_, _)
\* sep.join(items)
Join(items, sep) ==
    IF Len(items) = 0 THEN << >>
    ELSE IF Len(items) = 1 THEN items[1]
    ELSE items[1] \o sep \o Join(Tail(items), sep)

\* The list `output` of format_output, before it is joined
output_lines(info, text) ==
    <<HeadingLine,
      TitlePrefix \o StrOf(DictGet(info, "title", Some(UnknownTitle))) \o <<"\n">>,
      MetadataLine,
      VideoIdLabel \o StrOf(DictGet(info, "video_id", Some(<<"N", "/", "A">>))),
      ChannelLabel \o StrOf(DictGet(info, "channel", Some(<<"N", "/", "A">>))),
      DurationLabel \o format_duration(DictGet(info, "duration", Some(0))).value[1]>>
    \o (IF TruthyInt(DictGet(info, "view_count", None))
        THEN <<ViewsLabel \o Grouped(info["view_count"][1])>> ELSE << >>)
    \o (IF TruthyStr(DictGet(info, "upload_date", None))
        THEN <<UploadDateLabel \o info["upload_date"][1]>> ELSE << >>)
    \o <<UrlLabel \o StrOf(DictGet(info, "url", Some(<<"N", "/", "A">>))) \o <<"\n">> >>
    \o (IF TruthyStr(DictGet(info, "description", None))
        THEN <<DescriptionLine, info["description"][1], <<"\n">> >> ELSE << >>)
    \o (IF TruthyStr(text)
        THEN <<TranscriptLine>>
               \o (IF TruthyStr(DictGet(info, "detected_transcript_language", None))
                   THEN <<LanguagePrefix \o info["detected_transcript_language"][1]
                            \o LanguageSuffix>>
                   ELSE << >>)
               \o <<text[1]>>
        ELSE <<TranscriptLine, NotAvailableLine>>)

\* format_output(video_info, transcript): the joined document, or the
\* TypeError format_duration raises.
format_output(info, text) ==
    IF format_duration(DictGet(info, "duration", Some(0))).exc # ""
    THEN Raise(format_duration(DictGet(info, "duration", Some(0))).exc)
    ELSE Return(Join(output_lines(info, text), <<"\n">>))

----------------------------------------------------------------------------
(* The /process handler, one request from submission to response           *)

\* Module import time (processor.py:11-26) and YouTubeProcessor.__init__:
\* each provider library is present or not; TextFormatter is imported with
\* YouTubeTranscriptApi, so text_formatter is set exactly when the api is.
Init ==
    /\ yt_dlp \in BOOLEAN
    /\ YouTube \in BOOLEAN
    /\ YouTubeTranscriptApi \in BOOLEAN
    /\ text_formatter = YouTubeTranscriptApi
    /\ pc = "idle"
    /\ form = None
    /\ video_id = None
    /\ calls = << >>
    /\ info_src = None
    /\ video_info = None
    /\ tracks = None
    /\ chosen = None
    /\ formatted = None
    /\ transcript = None
    /\ detected_language = None
    /\ response = None
    /\ u_url = << >>
    /\ u_validated = None
    /\ u_resolved = None

imports ==
    <<yt_dlp, YouTube, YouTubeTranscriptApi, text_formatter>>

\* A form is posted to /process.
Submit(url, max_transcript_length, language) ==
    /\ pc = "idle"
    /\ form' = Some([url |-> url, max_transcript_length |-> max_transcript_length,
                     language |-> language])
    /\ pc' = "query"
    /\ UNCHANGED <<imports, video_id, calls, info_src, video_info, tracks, chosen,
                   formatted, transcript, detected_language, response, url_vars>>

\* main.process_video: query = VideoQuery(...); a ValueError ends the request
\* with status 400.
CreateQuery ==
    /\ pc = "query"
    /\ IF VideoQuery(form[1]).exc = ""
       THEN /\ pc' = "resolve"
            /\ response' = response
       ELSE /\ pc' = "done"
            /\ response' = Some([status |-> 400, error |-> VideoQuery(form[1]).exc])
    /\ UNCHANGED <<imports, form, video_id, calls, info_src, video_info, tracks,
                   chosen, formatted, transcript, detected_language, url_vars>>

\* YouTubeProcessor.process_video: video_id = query.extract_video_id()
ResolveId ==
    /\ pc = "resolve"
    /\ IF extract_video_id(form[1].url).exc = ""
       THEN /\ video_id' = extract_video_id(form[1].url).value
            /\ pc' = "info_yt_dlp"
            /\ response' = response
       ELSE /\ video_id' = video_id
            /\ pc' = "done"
            /\ response' = Some([status |-> 400,
                                 error |-> extract_video_id(form[1].url).exc])
    /\ UNCHANGED <<imports, form, calls, info_src, video_info, tracks, chosen,
                   formatted, transcript, detected_language, url_vars>>

\* The first tier without its return: the record is built and the second
\* tier is tried all the same.
TryYtDlpFallsThrough ==
    /\ pc = "info_yt_dlp"
    /\ IF ~yt_dlp
       THEN /\ pc' = "info_pytube"
            /\ UNCHANGED <<calls, info_src, video_info>>
       ELSE \E threw \in BOOLEAN :
              /\ calls' = Append(calls, [api |-> "yt_dlp", threw |-> threw])
              /\ pc' = "info_pytube"
              /\ IF threw
                 THEN UNCHANGED <<info_src, video_info>>
                 ELSE \E info \in InfoDicts :
                        /\ info_src' = Some([tier |-> "yt_dlp", data |-> info])
                        /\ video_info' =
                             Some(get_video_info_yt_dlp(video_id[1], form[1].url, info))
    /\ UNCHANGED <<imports, form, video_id, tracks, chosen, formatted, transcript,
                   detected_language, response, url_vars>>

\* _get_video_info, first tier: skipped when yt_dlp is None; otherwise the
\* provider throws (caught and printed) or returns an info dict.
TryYtDlp ==
    /\ pc = "info_yt_dlp"
    /\ IF ~yt_dlp
       THEN /\ pc' = "info_pytube"
            /\ UNCHANGED <<calls, info_src, video_info>>
       ELSE \E threw \in BOOLEAN :
              /\ calls' = Append(calls, [api |-> "yt_dlp", threw |-> threw])
              /\ IF threw
                 THEN /\ pc' = "info_pytube"
                      /\ UNCHANGED <<info_src, video_info>>
                 ELSE \E info \in InfoDicts :
                        /\ info_src' = Some([tier |-> "yt_dlp", data |-> info])
                        /\ video_info' =
                             Some(get_video_info_yt_dlp(video_id[1], form[1].url, info))
                        /\ pc' = "transcript"
    /\ UNCHANGED <<imports, form, video_id, tracks, chosen, formatted, transcript,
                   detected_language, response, url_vars>>

\* _get_video_info, second tier: skipped when YouTube is None.
TryPytube ==
    /\ pc = "info_pytube"
    /\ IF ~YouTube
       THEN /\ pc' = "info_minimal"
            /\ UNCHANGED <<calls, info_src, video_info>>
       ELSE \E threw \in BOOLEAN :
              /\ calls' = Append(calls, [api |-> "pytube", threw |-> threw])
              /\ IF threw
                 THEN /\ pc' = "info_minimal"
                      /\ UNCHANGED <<info_src, video_info>>
                 ELSE \E yt \in PytubeObjects(video_id[1]) :
                        /\ info_src' = Some([tier |-> "pytube", data |-> yt])
                        /\ video_info' = Some(get_video_info_pytube(form[1].url, yt))
                        /\ pc' = "transcript"
    /\ UNCHANGED <<imports, form, video_id, tracks, chosen, formatted, transcript,
                   detected_language, response, url_vars>>

\* _get_video_info, "Minimal fallback"
MinimalFallback ==
    /\ pc = "info_minimal"
    /\ info_src' = Some([tier |-> "minimal", data |-> << >>])
    /\ video_info' = Some(minimal_fallback(video_id[1], form[1].url))
    /\ pc' = "transcript"
    /\ UNCHANGED <<imports, form, video_id, calls, tracks, chosen, formatted,
                   transcript, detected_language, response, url_vars>>

\* _get_transcript up to the selection: (None, None) at once when the api or
\* the formatter is missing; otherwise list_transcripts throws (caught) or
\* returns a track list, from which a track is selected; no track gives
\* (None, None).
ListAndSelect ==
    /\ pc = "transcript"
    /\ IF ~YouTubeTranscriptApi \/ ~text_formatter
       THEN /\ pc' = "merge"
            /\ UNCHANGED <<calls, tracks, chosen>>
       ELSE \E threw \in BOOLEAN :
              /\ calls' = Append(calls, [api |-> "list_transcripts", threw |-> threw])
              /\ IF threw
                 THEN /\ pc' = "merge"
                      /\ UNCHANGED <<tracks, chosen>>
                 ELSE \E transcript_list \in TrackLists :
                        /\ tracks' = Some(transcript_list)
                        /\ chosen' =
                             Some(select_transcript(transcript_list, form[1].language))
                        /\ pc' = IF chosen'[1].transcript = None
                                 THEN "merge" ELSE "fetch"
    /\ UNCHANGED <<imports, form, video_id, info_src, video_info, formatted,
                   transcript, detected_language, response, url_vars>>

\* The except branch returning (None, detected_language)
FetchAndFormatKeepsLanguage ==
    /\ pc = "fetch"
    /\ \E threw \in BOOLEAN :
         /\ calls' = Append(calls, [api |-> "fetch", threw |-> threw])
         /\ IF threw
            THEN /\ detected_language' = Some(chosen[1].detected_language)
                 /\ UNCHANGED <<formatted, transcript>>
            ELSE \E n \in TextLengths :
                   /\ formatted' = Some(TextOf(n))
                   /\ transcript' =
                        Some(truncate(TextOf(n), form[1].max_transcript_length))
                   /\ detected_language' = Some(chosen[1].detected_language)
    /\ pc' = "merge"
    /\ UNCHANGED <<imports, form, video_id, info_src, video_info, tracks, chosen,
                   response, url_vars>>

\* _get_transcript after the selection: transcript.fetch() or
\* format_transcript throws (caught, (None, None)), or the formatted text is
\* truncated and returned with the detected language.
FetchAndFormat ==
    /\ pc = "fetch"
    /\ \E threw \in BOOLEAN :
         /\ calls' = Append(calls, [api |-> "fetch", threw |-> threw])
         /\ IF threw
            THEN UNCHANGED <<formatted, transcript, detected_language>>
            ELSE \E n \in TextLengths :
                   /\ formatted' = Some(TextOf(n))
                   /\ transcript' =
                        Some(truncate(TextOf(n), form[1].max_transcript_length))
                   /\ detected_language' = Some(chosen[1].detected_language)
    /\ pc' = "merge"
    /\ UNCHANGED <<imports, form, video_id, info_src, video_info, tracks, chosen,
                   response, url_vars>>

\* The rest of YouTubeProcessor.process_video and of main.process_video: the
\* detected language is added to video_info when it is truthy, the document
\* is formatted, and the response is 200, or 500 when format_output raises
\* (TypeError is not a ValueError).  token_count is left out of the response:
\* estimate_tokens never raises and its value comes from the tiktoken library.
Respond ==
    /\ pc = "merge"
    /\ video_info' = IF TruthyStr(detected_language)
                     THEN Some(video_info[1] @@
                               ("detected_transcript_language" :> detected_language))
                     ELSE video_info
    /\ response' =
         IF format_output(video_info'[1], transcript).exc = ""
         THEN Some([status |-> 200,
                    output |-> format_output(video_info'[1], transcript).value[1],
                    transcript_available |-> (transcript # None)])
         ELSE Some([status |-> 500,
                    error |-> format_output(video_info'[1], transcript).exc])
    /\ pc' = "done"
    /\ UNCHANGED <<imports, form, video_id, calls, info_src, tracks, chosen,
                   formatted, transcript, detected_language, url_vars>>

Next ==
    \/ \E url \in RequestUrls, n \in RequestLengths, language \in RequestLanguages :
         Submit(url, n, language)
    \/ CreateQuery
    \/ ResolveId
    \/ TryYtDlp
    \/ TryPytube
    \/ MinimalFallback
    \/ ListAndSelect
    \/ FetchAndFormat
    \/ Respond

Spec ==
    Init /\ [][Next]_vars

----------------------------------------------------------------------------
(* The validator and the resolver applied to arbitrary URL strings         *)

InitUrl ==
    /\ yt_dlp = TRUE
    /\ YouTube = TRUE
    /\ YouTubeTranscriptApi = TRUE
    /\ text_formatter = YouTubeTranscriptApi
    /\ pc = "idle"
    /\ form = None
    /\ video_id = None
    /\ calls = << >>
    /\ info_src = None
    /\ video_info = None
    /\ tracks = None
    /\ chosen = None
    /\ formatted = None
    /\ transcript = None
    /\ detected_language = None
    /\ response = None
    /\ u_url \in UrlInputs
    /\ u_validated = None
    /\ u_resolved = None

\* VideoQuery.validate_youtube_url(u_url)
ApplyValidator ==
    /\ u_validated = None
    /\ u_validated' = Some(validate_youtube_url(u_url))
    /\ UNCHANGED <<pipeline_vars, u_url, u_resolved>>

\* extract_video_id on a query object whose url is u_url
ApplyResolver ==
    /\ u_resolved = None
    /\ u_resolved' = Some(extract_video_id(u_url))
    /\ UNCHANGED <<pipeline_vars, u_url, u_validated>>

NextUrl ==
    \/ ApplyValidator
    \/ ApplyResolver

SpecUrl ==
    InitUrl /\ [][NextUrl]_vars

----------------------------------------------------------------------------
(* Properties                                                              *)

\* _get_video_info has returned
InfoReturned ==
    pc \in {"transcript", "fetch", "merge", "done"} /\ video_id # None

\* _get_transcript has returned
TranscriptReturned ==
    pc \in {"merge", "done"} /\ video_id # None

Threw(api) ==
    \E i \in 1..Len(calls) : calls[i] = [api |-> api, threw |-> TRUE]

Called(api) ==
    \E i \in 1..Len(calls) : calls[i].api = api

PrimaryFailed ==
    ~yt_dlp \/ Threw("yt_dlp")

SecondaryFailed ==
    ~YouTube \/ Threw("pytube")

\* C1: once the primary and the secondary tier are each unavailable or have
\* thrown, _get_video_info returns (it does not raise) the placeholder record:
\* title "Video <id>", channel "Unknown Channel", duration 0 and thumbnail
\* https://img.youtube.com/vi/<id>/maxresdefault.jpg.
C1_PlaceholderWhenTiersFail ==
    (InfoReturned /\ PrimaryFailed /\ SecondaryFailed) =>
        /\ video_info # None
        /\ video_info[1].title = Some(VideoPrefix \o video_id[1])
        /\ video_info[1].channel = Some(UnknownChannel)
        /\ video_info[1].duration = Some(0)
        /\ video_info[1].thumbnail_url =
             Some(ThumbPrefix \o video_id[1] \o ThumbSuffix)

C1_Witness ==
    /\ InfoReturned
    /\ yt_dlp /\ YouTube
    /\ Threw("yt_dlp") /\ Threw("pytube")
    /\ video_info # None
    /\ video_info[1].title = Some(VideoPrefix \o SampleId)

IsManualIn(tl, i, language) ==
    ~tl[i].is_generated /\ tl[i].language_code = language

IsGeneratedIn(tl, i, language) ==
    tl[i].is_generated /\ tl[i].language_code = language

\* C2: the selected track is (1) the manual track in the requested language,
\* else (2) the generated track in the requested language, else (3) the first
\* enumerated manual track, else (4) the first enumerated track; the detected
\* language is the requested one for (1) and (2) and the track's own code for
\* (3) and (4); with no track at all the result is (None, None).
C2_SelectionOrder ==
    (tracks # None /\ chosen # None) =>
        LET tl       == tracks[1]
            language == form[1].language
            sel      == chosen[1]
            idx      == 1..Len(tl)
        IN  /\ (\E i \in idx : IsManualIn(tl, i, language)) =>
                  /\ \E i \in idx : IsManualIn(tl, i, language)
                                      /\ sel.transcript = Some(tl[i])
                  /\ sel.detected_language = language
            /\ (/\ \A i \in idx : ~IsManualIn(tl, i, language)
                /\ \E i \in idx : IsGeneratedIn(tl, i, language)) =>
                  /\ \E i \in idx : IsGeneratedIn(tl, i, language)
                                      /\ sel.transcript = Some(tl[i])
                  /\ sel.detected_language = language
            /\ (/\ \A i \in idx : tl[i].language_code # language
                /\ \E i \in idx : ~tl[i].is_generated) =>
                  \E i \in idx :
                      /\ ~tl[i].is_generated
                      /\ \A j \in 1..(i - 1) : tl[j].is_generated
                      /\ sel.transcript = Some(tl[i])
                      /\ sel.detected_language = tl[i].language_code
            /\ (/\ \A i \in idx : tl[i].language_code # language
                /\ \A i \in idx : tl[i].is_generated
                /\ tl # << >>) =>
                  /\ sel.transcript = Some(tl[1])
                  /\ sel.detected_language = tl[1].language_code
            /\ (tl = << >>) =>
                  /\ sel.transcript = None
                  /\ TranscriptReturned => transcript = None /\ detected_language = None
            /\ (TranscriptReturned /\ transcript # None) =>
                  detected_language = Some(sel.detected_language)

\* Choice (3) passes over an earlier generated track.
C2_Witness ==
    /\ TranscriptReturned
    /\ form[1].language = LangFr
    /\ tracks = Some(<<[language_code |-> LangEn, is_generated |-> TRUE],
                       [language_code |-> LangDe, is_generated |-> FALSE]>>)
    /\ transcript # None
    /\ detected_language = Some(LangDe)

\* C3: for max_length >= 100 and formatted text T, the returned transcript is
\* T itself when len(T) <= max_length, and otherwise the first max_length
\* characters of T followed by the truncation marker.
C3_Truncation ==
    (formatted # None /\ transcript # None) =>
        LET T == formatted[1]
            m == form[1].max_transcript_length
            r == transcript[1]
        IN  /\ m >= MinTranscriptLength
            /\ Len(T) <= m => r = T
            /\ Len(T) > m =>
                  /\ Len(r) = m + Len(TruncationMarker)
                  /\ \A i \in 1..m : r[i] = T[i]
                  /\ \A i \in 1..Len(TruncationMarker) : r[m + i] = TruncationMarker[i]

C3_Witness ==
    /\ formatted # None
    /\ transcript # None
    /\ Len(formatted[1]) = form[1].max_transcript_length + 1
    /\ EndsWith(transcript[1], TruncationMarker)

\* C4: _get_transcript returns (None, None) when the backend is unavailable,
\* when no track exists and when listing, fetching or formatting throws; its
\* two components are never one None and one not.
C4_NoneNone ==
    TranscriptReturned =>
        /\ (transcript = None) <=> (detected_language = None)
        /\ (~YouTubeTranscriptApi \/ ~text_formatter) =>
              transcript = None /\ detected_language = None
        /\ (tracks = Some(<< >>)) => transcript = None /\ detected_language = None
        /\ (Threw("list_transcripts") \/ Threw("fetch")) =>
              transcript = None /\ detected_language = None

C4_Witness ==
    /\ TranscriptReturned
    /\ chosen # None
    /\ Threw("fetch")
    /\ transcript = None
    /\ detected_language = None

\* The request fails validation: its URL is rejected or its length is below
\* the minimum.
InvalidRequest ==
    /\ form # None
    /\ \/ \A k \in 1..Len(youtube_patterns) :
             re_match(youtube_patterns[k], form[1].url) = None
       \/ form[1].max_transcript_length < MinTranscriptLength

\* C5: an invalid request never reaches a fetcher and ends with status 400.
C5_RejectedBeforeFetch ==
    InvalidRequest =>
        /\ pc \in {"query", "done"}
        /\ calls = << >>
        /\ video_id = None /\ video_info = None /\ transcript = None
        /\ pc = "done" => response # None /\ response[1].status = 400

C5_Witness ==
    /\ pc = "done"
    /\ re_match(WatchLit, form[1].url) # None
    /\ form[1].max_transcript_length = MinTranscriptLength - 1
    /\ response[1].status = 400
    /\ calls = << >>

\* C6: a URL is accepted by the validator exactly when the resolver extracts
\* an identifier from it, and an accepted URL resolves to an identifier of
\* IdLen characters.
C6_ValidatorResolverAgree ==
    (u_validated # None /\ u_resolved # None) =>
        /\ (u_validated[1].exc = "") <=> (u_resolved[1].exc = "")
        /\ u_validated[1].exc # "" => u_resolved[1].exc = "ValueError"
        /\ u_validated[1].exc = "" => Len(u_resolved[1].value[1]) = IdLen

\* C7: a request that passes validation ends with status 200 and a document
\* containing the heading, whatever the providers did.
C7_ValidRequestSucceeds ==
    (pc = "done" /\ ~InvalidRequest) =>
        /\ response[1].status = 200
        /\ Contains(response[1].output, HeadingLine)

IsMetadataCall(c) ==
    c.api \in {"yt_dlp", "pytube"}

\* C8: the metadata tiers are tried in the order yt-dlp, pytube, minimal
\* fallback, each at most once; an unavailable tier is not called; pytube is
\* tried only after yt-dlp was unavailable or threw, the fallback only after
\* pytube was too; the result comes from the first tier that did not throw.
C8_TierOrder ==
    LET meta == SelectSeq(calls, IsMetadataCall)
    IN  /\ Len(meta) <= 2
        /\ \A i \in 1..Len(meta) :
              /\ meta[i].api = "yt_dlp" => i = 1 /\ yt_dlp
              /\ meta[i].api = "pytube" =>
                    /\ YouTube
                    /\ i = 1 => ~yt_dlp
                    /\ i = 2 => meta[1] = [api |-> "yt_dlp", threw |-> TRUE]
              /\ ~meta[i].threw => i = Len(meta)
        /\ InfoReturned =>
              /\ info_src # None
              /\ info_src[1].tier = "yt_dlp" =>
                    /\ meta = <<[api |-> "yt_dlp", threw |-> FALSE]>>
                    /\ video_info[1].title =
                         DictGet(info_src[1].data, "title", Some(UnknownTitle))
              /\ info_src[1].tier = "pytube" =>
                    /\ PrimaryFailed
                    /\ meta[Len(meta)] = [api |-> "pytube", threw |-> FALSE]
                    /\ video_info[1].duration = info_src[1].data.length
              /\ info_src[1].tier = "minimal" =>
                    /\ PrimaryFailed /\ SecondaryFailed
                    /\ yt_dlp => Called("yt_dlp")
                    /\ YouTube => Called("pytube")
                    /\ video_info[1].title = Some(VideoPrefix \o video_id[1])

C8_Witness ==
    /\ InfoReturned
    /\ SelectSeq(calls, IsMetadataCall) =
         <<[api |-> "yt_dlp", threw |-> TRUE], [api |-> "pytube", threw |-> FALSE]>>
    /\ info_src[1].tier = "pytube"

\* The record field each yt-dlp key is copied to
FieldOf(key) ==
    CASE key = "uploader" -> "channel"
      [] key = "thumbnail" -> "thumbnail_url"
      [] OTHER -> key

\* C9 as stated: a field the provider did not supply is absent from the
\* record of the primary and of the secondary tier, never a default.
C9_NoDefaultsInTiers ==
    (InfoReturned /\ info_src[1].tier = "yt_dlp") =>
        \A k \in InfoKeys \ DOMAIN info_src[1].data :
            video_info[1][FieldOf(k)] = None

\* C9 as the code has it: the primary tier replaces a missing title,
\* description, duration and uploader by "Unknown Title", "", 0 and "Unknown
\* Channel", and leaves a missing view_count, upload_date and thumbnail
\* absent; keys that are present are copied.  The secondary tier copies the
\* attributes of the pytube object and adds no default.
C9_DefaultsOfPrimaryTier ==
    /\ (InfoReturned /\ info_src[1].tier = "yt_dlp") =>
          LET info == info_src[1].data
              rec  == video_info[1]
          IN  /\ \A k \in DOMAIN info : rec[FieldOf(k)] = info[k]
              /\ "title" \notin DOMAIN info => rec.title = Some(UnknownTitle)
              /\ "description" \notin DOMAIN info => rec.description = Some(<< >>)
              /\ "duration" \notin DOMAIN info => rec.duration = Some(0)
              /\ "uploader" \notin DOMAIN info => rec.channel = Some(UnknownChannel)
              /\ \A k \in {"view_count", "upload_date", "thumbnail"} \ DOMAIN info :
                    rec[FieldOf(k)] = None
    /\ (InfoReturned /\ info_src[1].tier = "pytube") =>
          LET yt  == info_src[1].data
              rec == video_info[1]
          IN  /\ rec.title = yt.title
              /\ rec.description = yt.description
              /\ rec.duration = yt.length
              /\ rec.view_count = yt.views
              /\ rec.channel = yt.author
              /\ rec.thumbnail_url = yt.thumbnail_url
              /\ (yt.publish_date = None) <=> (rec.upload_date = None)

C9_Witness ==
    /\ InfoReturned
    /\ info_src[1].tier = "yt_dlp"
    /\ info_src[1].data = InfoWithKeys({})
    /\ video_info[1].title = Some(UnknownTitle)
    /\ video_info[1].duration = Some(0)

\* C10: in a 200 response the transcript_available flag is true exactly when
\* the document ends with the transcript text after its Transcript heading,
\* and false exactly when the document holds the "not available" placeholder.
C10_FlagAgreesWithDocument ==
    (pc = "done" /\ response[1].status = 200) =>
        /\ response[1].transcript_available <=>
              ~Contains(response[1].output, NotAvailableLine)
        /\ response[1].transcript_available =>
              /\ Contains(response[1].output, TranscriptLine)
              /\ EndsWith(response[1].output, transcript[1])

====
